---- MODULE Spec2Model ----
(***************************************************************************)
(* Model of the object-detection gateway of src/app.js: the /webcam        *)
(* session (one global process handle, a multipart stream per accepted     *)
(* start request) and the per-request /detect jobs.                        *)
(*                                                                         *)
(* Every action is one callback of app.js, run to completion: Node runs    *)
(* route handlers and event listeners one at a time.  The environment is   *)
(* the child-process runtime.  It is modelled as Node's child_process      *)
(* behaves:                                                                *)
(*   - a process that cannot be started emits 'error' and then 'close'     *)
(*     (exit code -2) from one process.nextTick callback, so both listeners*)
(*     run before any other request or event is handled;                   *)
(*   - a started process emits stdout/stderr 'data' events and finally one *)
(*     'close' event, with no data after it;                               *)
(*   - a listener that throws (a response sent after the headers of that   *)
(*     response were sent) is an uncaught exception: the server terminates.*)
(***************************************************************************)
EXTENDS Integers, Sequences, FiniteSets

\* ------------------------------------------------------------------------
\* Bounds of the model
\* ------------------------------------------------------------------------
MaxWebcam == 3      \* webcam processes spawned in one run
MaxFrames == 2      \* stdout chunks emitted by all webcam processes of a run
MaxJobs == 2        \* detection jobs in one run
MaxChunks == 2      \* stdout/stderr chunks emitted by all detectors of a run
MaxFiles == 2       \* entries of a result-directory listing

NULL == 0           \* the null process handle
OutputRoot == 0     \* the directory ./output; a job's folder is named by its id

WProcs == 1..MaxWebcam
Jobs == 1..MaxJobs

\* ------------------------------------------------------------------------
\* State
\* ------------------------------------------------------------------------
VARIABLES
    up,             \* the server process is running (no uncaught exception yet)
    last,           \* the JSON reply of the most recent request answered at once
    dirs,           \* directories created under ./output ("output" itself, job ids)
    pythonProcess,  \* the module-level webcam handle: NULL or a webcam process
    wstate,         \* per webcam process: unborn, running, failed, errored, closed
    wsig,           \* per webcam process: SIGTERM was sent to it
    wfailed,        \* the webcam processes that could not be started
    wout,           \* per webcam process: stdout chunks it emitted, in order
    wctype,         \* per start response: the Content-Type header set on it
    wbody,          \* per start response: the parts written with res.write
    wjson,          \* per start response: the JSON replies sent on it
    image_path,     \* the module-level variable of the same name
    dstate,         \* per job: unborn, running, failed, errored, listing, done
    uniqueId,       \* per job: the random identifier of its output folder
    upfile,         \* per job: the uploaded input file exists on disk
    unlink,         \* per job: none, pending, ok, failed (fs.unlink of the input)
    errorMessage,   \* per job: accumulated stderr text
    resultMessage,  \* per job: accumulated stdout text
    stderrLog,      \* per job: stderr chunks the detector emitted, in order
    nchunks,        \* chunks emitted by detectors so far
    dcode,          \* per job: exit code of the close event
    dlist,          \* per job: none, error, ok (outcome of fs.readdir)
    dfiles,         \* per job: the listing handed to the readdir callback
    dres,           \* per job: responses delivered on its request
    dsends          \* per job: number of times a response was sent on its request

wvars == <<pythonProcess, wstate, wsig, wfailed, wout, wctype, wbody, wjson>>
dvars == <<image_path, dstate, uniqueId, upfile, unlink, errorMessage,
           resultMessage, stderrLog, nchunks, dcode, dlist, dfiles, dres, dsends>>
vars == <<up, last, dirs, wvars, dvars>>

\* ------------------------------------------------------------------------
\* Replies and text
\* ------------------------------------------------------------------------
NoReply == [route |-> "none", action |-> "", status |-> 0, error |-> ""]

Reply(route, action, status, error) ==
    [route |-> route, action |-> action, status |-> status, error |-> error]

\* Buffer.prototype.toString(): UTF-8 decoding of ONE chunk into code points.
\* One-byte and two-byte sequences are decoded; a byte that does not start a
\* complete sequence becomes U+FFFD (65533).
RECURSIVE ToString(_)
ToString(b) ==
    IF b = <<>> THEN <<>>
    ELSE IF b[1] < 128 THEN <<b[1]>> \o ToString(Tail(b))
    ELSE IF b[1] >= 194 /\ b[1] <= 223 /\ Len(b) >= 2 /\ b[2] >= 128 /\ b[2] <= 191
         THEN <<(b[1] - 192) * 64 + (b[2] - 128)>> \o ToString(Tail(Tail(b)))
    ELSE <<65533>> \o ToString(Tail(b))

\* ------------------------------------------------------------------------
\* The event loop
\* ------------------------------------------------------------------------
\* A spawn failure is reported from process.nextTick: its 'error' and 'close'
\* listeners run before any other callback.
TickPending ==
    \/ \E p \in WProcs : wstate[p] \in {"failed", "errored"}
    \/ \E j \in Jobs : dstate[j] \in {"failed", "errored"}

Ready == up /\ ~TickPending

\* ------------------------------------------------------------------------
\* GET /webcam
\* ------------------------------------------------------------------------
\* What res.write receives: a string, or a Buffer (a copy of the chunk's bytes).
Text(s) == [text |-> s, bytes |-> <<>>]
Buffer(b) == [text |-> "", bytes |-> b]

Boundary == Text("--frame\r\n")
PartHeader == Text("Content-Type: image/jpeg\r\n\r\n")
LineBreak == Text("\r\n")
StreamType == "multipart/x-mixed-replace; boundary=frame"

Alive(p) == wstate[p] = "running"

RECURSIVE SumLen(_, _)
SumLen(f, n) == IF n = 0 THEN 0 ELSE Len(f[n]) + SumLen(f, n - 1)

FramesEmitted == SumLen(wout, MaxWebcam)

NextWebcam == Cardinality({p \in WProcs : wstate[p] # "unborn"}) + 1

\* action=start while a handle is tracked: 400, nothing else.
WebcamStartRejected ==
    /\ Ready
    /\ pythonProcess # NULL
    /\ last' = Reply("webcam", "start", 400, "Webcam detection is already running.")
    /\ UNCHANGED <<up, dirs, wvars, dvars>>

\* Variant of WebcamStart without the check of the tracked handle.
WebcamStartUnguarded(started) ==
    /\ Ready
    /\ NextWebcam <= MaxWebcam
    /\ LET p == NextWebcam IN
        /\ dirs' = dirs \cup {OutputRoot}
        /\ pythonProcess' = p
        /\ wstate' = [wstate EXCEPT ![p] = IF started THEN "running" ELSE "failed"]
        /\ wfailed' = IF started THEN wfailed ELSE wfailed \cup {p}
        /\ wctype' = [wctype EXCEPT ![p] = StreamType]
    /\ UNCHANGED <<up, last, wsig, wout, wbody, wjson, dvars>>

\* action=start while no handle is tracked: spawn, track the handle, set the
\* stream header and register the listeners.  started = FALSE is a process
\* that cannot be started.
WebcamStart(started) ==
    /\ Ready
    /\ pythonProcess = NULL
    /\ NextWebcam <= MaxWebcam
    /\ LET p == NextWebcam IN
        /\ dirs' = dirs \cup {OutputRoot}
        /\ pythonProcess' = p
        /\ wstate' = [wstate EXCEPT ![p] = IF started THEN "running" ELSE "failed"]
        /\ wfailed' = IF started THEN wfailed ELSE wfailed \cup {p}
        /\ wctype' = [wctype EXCEPT ![p] = StreamType]
    /\ UNCHANGED <<up, last, wsig, wout, wbody, wjson, dvars>>

\* Variant of WebcamData that leaves out the line break closing a section.
WebcamDataNoLineBreak(p, data) ==
    /\ Ready
    /\ Alive(p)
    /\ FramesEmitted < MaxFrames
    /\ wout' = [wout EXCEPT ![p] = Append(@, data)]
    /\ wbody' = [wbody EXCEPT ![p] = @ \o <<Boundary, PartHeader, Buffer(data)>>]
    /\ UNCHANGED <<up, last, dirs, pythonProcess, wstate, wsig, wfailed, wctype, wjson, dvars>>

\* Variant of WebcamData that writes to the response of the tracked process,
\* as if the response were kept in a module-level variable.
WebcamDataToTracked(p, data) ==
    /\ Ready
    /\ Alive(p)
    /\ FramesEmitted < MaxFrames
    /\ wout' = [wout EXCEPT ![p] = Append(@, data)]
    /\ LET q == IF pythonProcess # NULL THEN pythonProcess ELSE p IN
        wbody' = [wbody EXCEPT ![q] = @ \o <<Boundary, PartHeader, Buffer(data), LineBreak>>]
    /\ UNCHANGED <<up, last, dirs, pythonProcess, wstate, wsig, wfailed, wctype, wjson, dvars>>

\* pythonProcess.stdout.on('data') of the start request that spawned p.
WebcamData(p, data) ==
    /\ Ready
    /\ Alive(p)
    /\ FramesEmitted < MaxFrames
    /\ wout' = [wout EXCEPT ![p] = Append(@, data)]
    /\ wbody' = [wbody EXCEPT ![p] = @ \o <<Boundary, PartHeader, Buffer(data), LineBreak>>]
    /\ UNCHANGED <<up, last, dirs, pythonProcess, wstate, wsig, wfailed, wctype, wjson, dvars>>

\* Variant of WebcamClose that starts the detector again when it exited
\* without having been stopped.
WebcamCloseRestarts(p) ==
    /\ up
    /\ \/ Alive(p) /\ ~TickPending
       \/ wstate[p] = "errored"
    /\ IF Alive(p) /\ ~wsig[p] /\ NextWebcam <= MaxWebcam
       THEN /\ wstate' = [wstate EXCEPT ![p] = "closed", ![NextWebcam] = "running"]
            /\ pythonProcess' = NextWebcam
       ELSE /\ wstate' = [wstate EXCEPT ![p] = "closed"]
            /\ pythonProcess' = NULL
    /\ UNCHANGED <<up, last, dirs, wsig, wfailed, wout, wctype, wbody, wjson, dvars>>

\* Variant of WebcamClose that answers the start request with a JSON reply,
\* as the close listener of /detect does.
WebcamCloseReplies(p) ==
    /\ \/ Alive(p) /\ ~TickPending
       \/ wstate[p] = "errored"
    /\ up
    /\ wstate' = [wstate EXCEPT ![p] = "closed"]
    /\ pythonProcess' = NULL
    /\ IF wbody[p] = <<>> /\ wjson[p] = <<>>
       THEN /\ wjson' = [wjson EXCEPT ![p] =
                            <<Reply("webcam", "start", 500, "Detection failed")>>]
            /\ up' = up
       ELSE /\ up' = FALSE
            /\ wjson' = wjson
    /\ UNCHANGED <<last, dirs, wsig, wfailed, wout, wctype, wbody, dvars>>

\* Variant of WebcamClose that leaves the module-level handle as it is.
WebcamCloseKeepsHandle(p) ==
    /\ up
    /\ \/ Alive(p) /\ ~TickPending
       \/ wstate[p] = "errored"
    /\ wstate' = [wstate EXCEPT ![p] = "closed"]
    /\ UNCHANGED <<up, last, dirs, pythonProcess, wsig, wfailed, wout, wctype, wbody,
                   wjson, dvars>>

\* pythonProcess.on('close') of the start request that spawned p: the
\* module-level handle is reset, whatever it holds.
WebcamClose(p) ==
    /\ up
    /\ \/ Alive(p) /\ ~TickPending
       \/ wstate[p] = "errored"
    /\ wstate' = [wstate EXCEPT ![p] = "closed"]
    /\ pythonProcess' = NULL
    /\ UNCHANGED <<up, last, dirs, wsig, wfailed, wout, wctype, wbody, wjson, dvars>>

\* Variant of WebcamError that only logs the error.
WebcamErrorSilent(p) ==
    /\ up
    /\ wstate[p] = "failed"
    /\ wstate' = [wstate EXCEPT ![p] = "errored"]
    /\ UNCHANGED <<up, last, dirs, pythonProcess, wsig, wfailed, wout, wctype, wbody,
                   wjson, dvars>>

\* pythonProcess.on('error') of the start request that spawned p.
\* res.status(500).json() throws when the response has already been started.
WebcamError(p) ==
    /\ up
    /\ wstate[p] = "failed"
    /\ wstate' = [wstate EXCEPT ![p] = "errored"]
    /\ IF wbody[p] = <<>> /\ wjson[p] = <<>>
       THEN /\ wjson' = [wjson EXCEPT ![p] =
                            <<Reply("webcam", "start", 500, "Failed to start Python process")>>]
            /\ up' = up
       ELSE /\ up' = FALSE
            /\ wjson' = wjson
    /\ UNCHANGED <<last, dirs, pythonProcess, wsig, wfailed, wout, wctype, wbody, dvars>>

\* action=stop.
WebcamStop ==
    /\ Ready
    /\ IF pythonProcess # NULL
       THEN /\ wsig' = [wsig EXCEPT ![pythonProcess] = TRUE]
            /\ pythonProcess' = NULL
            /\ last' = Reply("webcam", "stop", 200, "")
       ELSE /\ last' = Reply("webcam", "stop", 400, "No webcam detection process is running.")
            /\ UNCHANGED <<wsig, pythonProcess>>
    /\ UNCHANGED <<up, dirs, wstate, wfailed, wout, wctype, wbody, wjson, dvars>>

\* Variant of WebcamInvalid that forgets the tracked process.
WebcamInvalidResets(action) ==
    /\ Ready
    /\ last' = Reply("webcam", action, 400, "Invalid action. Use ?action=start or ?action=stop")
    /\ pythonProcess' = NULL
    /\ UNCHANGED <<up, dirs, wstate, wsig, wfailed, wout, wctype, wbody, wjson, dvars>>

\* any other action, or none.
WebcamInvalid(action) ==
    /\ Ready
    /\ last' = Reply("webcam", action, 400, "Invalid action. Use ?action=start or ?action=stop")
    /\ UNCHANGED <<up, dirs, wvars, dvars>>

\* ------------------------------------------------------------------------
\* File names and extensions
\* ------------------------------------------------------------------------
UpperCase == <<"A", "B", "C", "D", "E", "F", "G", "H", "I", "J", "K", "L", "M",
               "N", "O", "P", "Q", "R", "S", "T", "U", "V", "W", "X", "Y", "Z">>
LowerCase == <<"a", "b", "c", "d", "e", "f", "g", "h", "i", "j", "k", "l", "m",
               "n", "o", "p", "q", "r", "s", "t", "u", "v", "w", "x", "y", "z">>

\* String.prototype.toLowerCase() on a sequence of characters.
toLowerCase(s) ==
    [i \in 1..Len(s) |->
        IF \E k \in 1..26 : UpperCase[k] = s[i]
        THEN LowerCase[CHOOSE k \in 1..26 : UpperCase[k] = s[i]]
        ELSE s[i]]

\* path.extname() of a name without directory separators: from the last dot
\* to the end; empty when there is no dot, when the only dot that counts is
\* the first character, and for "..".
extname(s) ==
    LET dotsAt == {i \in 1..Len(s) : s[i] = "."} IN
    IF dotsAt = {} THEN <<>>
    ELSE LET startDot == CHOOSE i \in dotsAt : \A k \in dotsAt : k <= i IN
         IF startDot = 1 \/ s = <<".", ".">> THEN <<>>
         ELSE SubSeq(s, startDot, Len(s))

ImageExtensions == << <<".", "j", "p", "g">>, <<".", "j", "p", "e", "g">>,
                      <<".", "p", "n", "g">>, <<".", "b", "m", "p">> >>

\* Variant of IsImage that compares the extension as it is spelled.
IsImageCaseSensitive(file) ==
    \E k \in 1..Len(ImageExtensions) : ImageExtensions[k] = extname(file)

\* ['.jpg', '.jpeg', '.png', '.bmp'].includes(path.extname(file).toLowerCase())
IsImage(file) ==
    \E k \in 1..Len(ImageExtensions) : ImageExtensions[k] = toLowerCase(extname(file))

\* Array.prototype.filter with the predicate above: order is kept.
RECURSIVE imageFiles(_)
imageFiles(files) ==
    IF files = <<>> THEN <<>>
    ELSE IF IsImage(Head(files)) THEN <<Head(files)>> \o imageFiles(Tail(files))
    ELSE imageFiles(Tail(files))

Url(id, file) ==
    [base |-> "http://localhost:3002/output/", id |-> id, run |-> "results", file |-> file]

\* imageFiles.map(file => `http://localhost:3002/output/${uniqueId}/results/${file}`)
imageUrls(id, images) == [i \in 1..Len(images) |-> Url(id, images[i])]

\* ------------------------------------------------------------------------
\* POST /detect
\* ------------------------------------------------------------------------
Ids == 101..(100 + MaxJobs)           \* values of crypto.randomBytes(16)
NoId == 100
SpawnFailureCode == -2                \* exit code of the close event after a spawn failure
SignalCode == -1                      \* stands for code null: terminated by a signal
ExitCodes == {0, 1, SignalCode}
SpawnMessage == <<69, 78, 79, 69, 78, 84>>   \* err.message of the spawn failure

Response(status, error, details, image) ==
    [status |-> status, error |-> error, details |-> details, image |-> image]

NextJob == Cardinality({j \in Jobs : dstate[j] # "unborn"}) + 1

\* res.status(..).json(..) / res.send(..) on the request of job j: the first
\* one is delivered, a later one throws in the listener.
Send(j, r) ==
    /\ dsends' = [dsends EXCEPT ![j] = @ + 1]
    /\ IF dres[j] = <<>>
       THEN dres' = [dres EXCEPT ![j] = <<r>>] /\ up' = up
       ELSE dres' = dres /\ up' = FALSE

\* Variant of DetectNoFile that creates an output folder before it looks for
\* the file.
DetectNoFileCreatesFolder ==
    /\ Ready
    /\ last' = Reply("detect", "", 400, "No image uploaded")
    /\ \E id \in Ids : dirs' = dirs \cup {OutputRoot, id}
    /\ UNCHANGED <<up, wvars, dvars>>

\* No file in the request: 400, nothing else.
DetectNoFile ==
    /\ Ready
    /\ last' = Reply("detect", "", 400, "No image uploaded")
    /\ UNCHANGED <<up, dirs, wvars, dvars>>

\* A request with a file, the j-th of the run: the upload is on disk, an id is
\* drawn, the output folder is created and the detector is spawned.
DetectPost(j, id, started) ==
    /\ Ready
    /\ j = NextJob
    /\ id \in Ids \ {uniqueId[k] : k \in Jobs}
    /\ uniqueId' = [uniqueId EXCEPT ![j] = id]
    /\ upfile' = [upfile EXCEPT ![j] = TRUE]
    /\ dirs' = dirs \cup {OutputRoot, id}
    /\ dstate' = [dstate EXCEPT ![j] = IF started THEN "running" ELSE "failed"]
    /\ errorMessage' = [errorMessage EXCEPT ![j] = <<>>]
    /\ resultMessage' = [resultMessage EXCEPT ![j] = <<>>]
    /\ UNCHANGED <<up, last, wvars, image_path, unlink, stderrLog, nchunks,
                   dcode, dlist, dfiles, dres, dsends>>

\* Variant of DetectStdout that accumulates into errorMessage.
DetectStdoutIntoError(j, data) ==
    /\ Ready
    /\ dstate[j] = "running"
    /\ nchunks < MaxChunks
    /\ nchunks' = nchunks + 1
    /\ errorMessage' = [errorMessage EXCEPT ![j] = @ \o ToString(data)]
    /\ UNCHANGED <<up, last, dirs, wvars, image_path, dstate, uniqueId, upfile, unlink,
                   resultMessage, stderrLog, dcode, dlist, dfiles, dres, dsends>>

\* pythonProcess.stdout.on('data') of job j.
DetectStdout(j, data) ==
    /\ Ready
    /\ dstate[j] = "running"
    /\ nchunks < MaxChunks
    /\ nchunks' = nchunks + 1
    /\ resultMessage' = [resultMessage EXCEPT ![j] = @ \o ToString(data)]
    /\ UNCHANGED <<up, last, dirs, wvars, image_path, dstate, uniqueId, upfile, unlink,
                   errorMessage, stderrLog, dcode, dlist, dfiles, dres, dsends>>

\* pythonProcess.stderr.on('data') of job j.
DetectStderr(j, data) ==
    /\ Ready
    /\ dstate[j] = "running"
    /\ nchunks < MaxChunks
    /\ nchunks' = nchunks + 1
    /\ stderrLog' = [stderrLog EXCEPT ![j] = Append(@, data)]
    /\ errorMessage' = [errorMessage EXCEPT ![j] = @ \o ToString(data)]
    /\ UNCHANGED <<up, last, dirs, wvars, image_path, dstate, uniqueId, upfile, unlink,
                   resultMessage, dcode, dlist, dfiles, dres, dsends>>

\* Variant of DetectClose without the return after the reply to a non-zero
\* code: the result folder is listed whatever the code.
DetectCloseAlwaysLists(j, code) ==
    /\ up
    /\ \/ dstate[j] = "running" /\ ~TickPending /\ code \in ExitCodes
       \/ dstate[j] = "errored" /\ code = SpawnFailureCode
    /\ unlink' = [unlink EXCEPT ![j] = "pending"]
    /\ dcode' = [dcode EXCEPT ![j] = code]
    /\ dstate' = [dstate EXCEPT ![j] = "listing"]
    /\ IF code # 0
       THEN Send(j, Response(500, "Detection failed", errorMessage[j], <<>>))
       ELSE UNCHANGED <<up, dres, dsends>>
    /\ UNCHANGED <<last, dirs, wvars, image_path, uniqueId, upfile, errorMessage,
                   resultMessage, stderrLog, nchunks, dlist, dfiles>>

\* Variant of DetectClose that does not unlink the upload.
DetectCloseNoUnlink(j, code) ==
    /\ up
    /\ \/ dstate[j] = "running" /\ ~TickPending /\ code \in ExitCodes
       \/ dstate[j] = "errored" /\ code = SpawnFailureCode
    /\ dcode' = [dcode EXCEPT ![j] = code]
    /\ IF code # 0
       THEN /\ Send(j, Response(500, "Detection failed", errorMessage[j], <<>>))
            /\ dstate' = [dstate EXCEPT ![j] = "done"]
       ELSE /\ dstate' = [dstate EXCEPT ![j] = "listing"]
            /\ UNCHANGED <<up, dres, dsends>>
    /\ UNCHANGED <<last, dirs, wvars, image_path, uniqueId, upfile, unlink, errorMessage,
                   resultMessage, stderrLog, nchunks, dlist, dfiles>>

\* pythonProcess.on('close') of job j: unlink the upload, then answer a
\* non-zero code or list the result folder.
DetectClose(j, code) ==
    /\ up
    /\ \/ dstate[j] = "running" /\ ~TickPending /\ code \in ExitCodes
       \/ dstate[j] = "errored" /\ code = SpawnFailureCode
    /\ unlink' = [unlink EXCEPT ![j] = "pending"]
    /\ dcode' = [dcode EXCEPT ![j] = code]
    /\ IF code # 0
       THEN /\ Send(j, Response(500, "Detection failed", errorMessage[j], <<>>))
            /\ dstate' = [dstate EXCEPT ![j] = "done"]
       ELSE /\ dstate' = [dstate EXCEPT ![j] = "listing"]
            /\ UNCHANGED <<up, dres, dsends>>
    /\ UNCHANGED <<last, dirs, wvars, image_path, uniqueId, upfile, errorMessage,
                   resultMessage, stderrLog, nchunks, dlist, dfiles>>

\* Variant of DetectReaddir that builds the reply from the module-level
\* image_path before assigning it.
DetectReaddirStaleGlobal(j, err, files) ==
    /\ Ready
    /\ dstate[j] = "listing"
    /\ dstate' = [dstate EXCEPT ![j] = "done"]
    /\ dlist' = [dlist EXCEPT ![j] = IF err THEN "error" ELSE "ok"]
    /\ IF err
       THEN /\ Send(j, Response(500, "Failed to read result folder", <<>>, <<>>))
            /\ UNCHANGED <<image_path, dfiles>>
       ELSE /\ dfiles' = [dfiles EXCEPT ![j] = files]
            /\ IF Len(imageFiles(files)) = 0
               THEN /\ Send(j, Response(500, "No images generated", <<>>, <<>>))
                    /\ UNCHANGED image_path
               ELSE /\ image_path' = imageUrls(uniqueId[j], imageFiles(files))
                    /\ Send(j, Response(200, "", <<>>, image_path))
    /\ UNCHANGED <<last, dirs, wvars, uniqueId, upfile, unlink, errorMessage,
                   resultMessage, stderrLog, nchunks, dcode>>

\* Variant of DetectReaddir without the check for an empty list of images.
DetectReaddirNoEmptyCheck(j, err, files) ==
    /\ Ready
    /\ dstate[j] = "listing"
    /\ dstate' = [dstate EXCEPT ![j] = "done"]
    /\ dlist' = [dlist EXCEPT ![j] = IF err THEN "error" ELSE "ok"]
    /\ IF err
       THEN /\ Send(j, Response(500, "Failed to read result folder", <<>>, <<>>))
            /\ UNCHANGED <<image_path, dfiles>>
       ELSE /\ dfiles' = [dfiles EXCEPT ![j] = files]
            /\ image_path' = imageUrls(uniqueId[j], imageFiles(files))
            /\ Send(j, Response(200, "", <<>>, image_path'))
    /\ UNCHANGED <<last, dirs, wvars, uniqueId, upfile, unlink, errorMessage,
                   resultMessage, stderrLog, nchunks, dcode>>

\* The callback of fs.readdir(resultFolder) of job j.
DetectReaddir(j, err, files) ==
    /\ Ready
    /\ dstate[j] = "listing"
    /\ dstate' = [dstate EXCEPT ![j] = "done"]
    /\ dlist' = [dlist EXCEPT ![j] = IF err THEN "error" ELSE "ok"]
    /\ IF err
       THEN /\ Send(j, Response(500, "Failed to read result folder", <<>>, <<>>))
            /\ UNCHANGED <<image_path, dfiles>>
       ELSE /\ dfiles' = [dfiles EXCEPT ![j] = files]
            /\ IF Len(imageFiles(files)) = 0
               THEN /\ Send(j, Response(500, "No images generated", <<>>, <<>>))
                    /\ UNCHANGED image_path
               ELSE /\ image_path' = imageUrls(uniqueId[j], imageFiles(files))
                    /\ Send(j, Response(200, "", <<>>, image_path'))
    /\ UNCHANGED <<last, dirs, wvars, uniqueId, upfile, unlink, errorMessage,
                   resultMessage, stderrLog, nchunks, dcode>>

\* pythonProcess.on('error') of job j.
DetectError(j) ==
    /\ up
    /\ dstate[j] = "failed"
    /\ dstate' = [dstate EXCEPT ![j] = "errored"]
    /\ Send(j, Response(500, "Failed to start the Python process", SpawnMessage, <<>>))
    /\ UNCHANGED <<last, dirs, wvars, image_path, uniqueId, upfile, unlink, errorMessage,
                   resultMessage, stderrLog, nchunks, dcode, dlist, dfiles>>

\* Variant of UnlinkDone that answers the request when the deletion failed.
UnlinkDoneEscalates(j, ok) ==
    /\ unlink[j] = "pending"
    /\ unlink' = [unlink EXCEPT ![j] = IF ok THEN "ok" ELSE "failed"]
    /\ upfile' = [upfile EXCEPT ![j] = IF ok THEN FALSE ELSE @]
    /\ IF ok
       THEN UNCHANGED <<up, dres, dsends>>
       ELSE Send(j, Response(500, "Failed to delete uploaded file", <<>>, <<>>))
    /\ UNCHANGED <<last, dirs, wvars, image_path, dstate, uniqueId, errorMessage,
                   resultMessage, stderrLog, nchunks, dcode, dlist, dfiles>>

\* Completion of fs.unlink(imagePath) of job j; a failure is only logged.
UnlinkDone(j, ok) ==
    /\ unlink[j] = "pending"
    /\ unlink' = [unlink EXCEPT ![j] = IF ok THEN "ok" ELSE "failed"]
    /\ upfile' = [upfile EXCEPT ![j] = IF ok THEN FALSE ELSE @]
    /\ UNCHANGED <<up, last, dirs, wvars, image_path, dstate, uniqueId, errorMessage,
                   resultMessage, stderrLog, nchunks, dcode, dlist, dfiles, dres, dsends>>

\* ------------------------------------------------------------------------
\* Inputs
\* ------------------------------------------------------------------------
Frames == {<<255, 216>>, <<255, 217>>}          \* webcam stdout chunks
Actions == {"", "pause"}                        \* action values other than start/stop

StdoutChunks == {<<79>>}                        \* "O"
StderrChunks == {<<69>>}                        \* "E"
\* with the two bytes of U+00E9, apart and together
StderrChunksWide == StderrChunks \cup {<<195>>, <<169>>, <<195, 169>>, <<114, 195>>}

FileNames == {<<"a", ".", "j", "p", "g">>, <<"b", ".", "t", "x", "t">>}
FileNamesWide == FileNames \cup
             {<<"c", ".", "P", "N", "G">>,
              <<"d", ".", "j", "p", "e", "g">>, <<"e", ".", "B", "m", "p">>,
              <<".", "p", "n", "g">>, <<"j", "p", "g">>,
              <<"g", ".", "t", "x", "t", ".", "j", "p", "g">>}

\* Directory listings: sequences of distinct names, at most MaxFiles long.
RECURSIVE Listings(_, _)
Listings(names, n) ==
    IF n = 0 THEN {<<>>}
    ELSE LET shorter == Listings(names, n - 1) IN
         shorter \cup {Append(l, f) : l \in {x \in shorter : Len(x) = n - 1},
                                     f \in names}

Distinct(l) == \A a, b \in 1..Len(l) : a # b => l[a] # l[b]

DirListings(names) == {l \in Listings(names, MaxFiles) : Distinct(l)}
ListingsNarrow == DirListings(FileNames)
ListingsWide == DirListings(FileNamesWide)
\* Listings that start with an image.
ListingsOfImages == {l \in ListingsNarrow : l # <<>> /\ IsImage(l[1])}

\* ------------------------------------------------------------------------
\* Specifications
\* ------------------------------------------------------------------------
Init ==
    /\ up = TRUE
    /\ last = NoReply
    /\ dirs = {}
    /\ pythonProcess = NULL
    /\ wstate = [p \in WProcs |-> "unborn"]
    /\ wsig = [p \in WProcs |-> FALSE]
    /\ wfailed = {}
    /\ wout = [p \in WProcs |-> <<>>]
    /\ wctype = [p \in WProcs |-> ""]
    /\ wbody = [p \in WProcs |-> <<>>]
    /\ wjson = [p \in WProcs |-> <<>>]
    /\ image_path = <<>>
    /\ dstate = [j \in Jobs |-> "unborn"]
    /\ uniqueId = [j \in Jobs |-> NoId]
    /\ upfile = [j \in Jobs |-> FALSE]
    /\ unlink = [j \in Jobs |-> "none"]
    /\ errorMessage = [j \in Jobs |-> <<>>]
    /\ resultMessage = [j \in Jobs |-> <<>>]
    /\ stderrLog = [j \in Jobs |-> <<>>]
    /\ nchunks = 0
    /\ dcode = [j \in Jobs |-> 0]
    /\ dlist = [j \in Jobs |-> "none"]
    /\ dfiles = [j \in Jobs |-> <<>>]
    /\ dres = [j \in Jobs |-> <<>>]
    /\ dsends = [j \in Jobs |-> 0]

WebcamNext ==
    \/ WebcamStartRejected
    \/ \E started \in BOOLEAN : WebcamStart(started)
    \/ \E p \in WProcs, data \in Frames : WebcamData(p, data)
    \/ \E p \in WProcs : WebcamClose(p)
    \/ \E p \in WProcs : WebcamError(p)
    \/ WebcamStop
    \/ \E action \in Actions : WebcamInvalid(action)

DetectNext ==
    \/ DetectNoFile
    \/ \E j \in Jobs, id \in Ids, started \in BOOLEAN : DetectPost(j, id, started)
    \/ \E j \in Jobs, data \in StdoutChunks : DetectStdout(j, data)
    \/ \E j \in Jobs, data \in StderrChunks : DetectStderr(j, data)
    \/ \E j \in Jobs, code \in ExitCodes \cup {SpawnFailureCode} : DetectClose(j, code)
    \/ \E j \in Jobs, files \in ListingsNarrow : DetectReaddir(j, FALSE, files)
    \/ \E j \in Jobs : DetectReaddir(j, TRUE, <<>>)
    \/ \E j \in Jobs : DetectError(j)
    \/ \E j \in Jobs, ok \in BOOLEAN : UnlinkDone(j, ok)

\* One request, with the wide set of result-folder listings.
ListingNext ==
    \/ \E id \in Ids, started \in BOOLEAN : DetectPost(1, id, started)
    \/ \E data \in StdoutChunks : DetectStdout(1, data)
    \/ \E data \in StderrChunks : DetectStderr(1, data)
    \/ \E code \in ExitCodes \cup {SpawnFailureCode} : DetectClose(1, code)
    \/ \E files \in ListingsWide : DetectReaddir(1, FALSE, files)
    \/ DetectReaddir(1, TRUE, <<>>)
    \/ DetectError(1)
    \/ \E ok \in BOOLEAN : UnlinkDone(1, ok)

\* One request, with the wide set of stderr chunks.
StderrNext ==
    \/ \E id \in Ids, started \in BOOLEAN : DetectPost(1, id, started)
    \/ \E data \in StdoutChunks : DetectStdout(1, data)
    \/ \E data \in StderrChunksWide : DetectStderr(1, data)
    \/ \E code \in ExitCodes \cup {SpawnFailureCode} : DetectClose(1, code)
    \/ \E files \in ListingsNarrow : DetectReaddir(1, FALSE, files)
    \/ DetectReaddir(1, TRUE, <<>>)
    \/ DetectError(1)
    \/ \E ok \in BOOLEAN : UnlinkDone(1, ok)

\* Concurrent requests to /detect whose detectors write nothing to stdout and
\* stderr, next to /webcam requests that are answered at once.
JobsNext ==
    \/ DetectNoFile
    \/ \E j \in Jobs, id \in Ids, started \in BOOLEAN : DetectPost(j, id, started)
    \/ \E j \in Jobs, code \in {0, 1, SpawnFailureCode} : DetectClose(j, code)
    \/ \E j \in Jobs, files \in ListingsOfImages : DetectReaddir(j, FALSE, files)
    \/ \E j \in Jobs : DetectReaddir(j, TRUE, <<>>)
    \/ \E j \in Jobs : DetectError(j)
    \/ \E j \in Jobs, ok \in BOOLEAN : UnlinkDone(j, ok)
    \/ \E action \in Actions : WebcamInvalid(action)

Next == WebcamNext \/ DetectNext

Spec == Init /\ [][Next]_vars
WebcamSpec == Init /\ [][WebcamNext]_vars
DetectSpec == Init /\ [][DetectNext]_vars
ListingSpec == Init /\ [][ListingNext]_vars
StderrSpec == Init /\ [][StderrNext]_vars
JobsSpec == Init /\ [][JobsNext]_vars

\* ------------------------------------------------------------------------
\* Properties of the webcam session
\* ------------------------------------------------------------------------
StartRequest == WebcamStartRejected \/ \E started \in BOOLEAN : WebcamStart(started)

StartFailedReply == Reply("webcam", "start", 500, "Failed to start Python process")

\* C1: in every reachable state at most one webcam process spawned by the
\* gateway is alive (spawned and not yet exited).
C1_AtMostOneAlive == Cardinality({p \in WProcs : Alive(p)}) <= 1

\* C2: a stop request handled while no webcam process is alive is answered
\* 400; a stop request handled while a webcam process is alive (and was not
\* already told to terminate) is answered 200 and leaves every alive process
\* signalled and no handle tracked, so that the next start request spawns.
C2_StopContract ==
    [][WebcamStop =>
        IF \E p \in WProcs : Alive(p) /\ ~wsig[p]
        THEN /\ last'.status = 200
             /\ \A p \in WProcs : Alive(p) => wsig'[p]
             /\ pythonProcess' = NULL
        ELSE (\A p \in WProcs : ~Alive(p)) => last'.status = 400]_vars

\* C3: a start request handled while the session is Running (a handle is
\* tracked) is answered 400 and changes nothing else: no process is spawned,
\* the handle, the signals and every stream are as before.
C3_StartWhileRunning ==
    [][StartRequest /\ pythonProcess # NULL =>
        /\ last' = Reply("webcam", "start", 400, "Webcam detection is already running.")
        /\ UNCHANGED <<up, dirs, wvars, dvars>>]_vars

\* a start request was rejected while a process is tracked, and the stream of
\* the tracked process has frames
C3_Witness ==
    /\ last.action = "start" /\ last.status = 400
    /\ pythonProcess # NULL
    /\ Alive(pythonProcess)
    /\ Len(wbody[pythonProcess]) = 4

C10_CloseReturnsToIdle ==
    /\ [][\A p \in WProcs :
            Alive(p) /\ ~wsig[p] /\ wstate'[p] = "closed" => pythonProcess' = NULL]_vars
    /\ [][StartRequest /\ pythonProcess = NULL =>
            /\ pythonProcess' = NextWebcam
            /\ wstate'[NextWebcam] \in {"running", "failed"}
            /\ last' = last]_vars

\* process 1 exited on its own and the next start request spawned process 2
C10_Witness ==
    /\ wstate[1] = "closed" /\ ~wsig[1] /\ 1 \notin wfailed
    /\ wstate[2] = "running" /\ pythonProcess = 2

\* C13: a /webcam request whose action is neither start nor stop (or is
\* missing) is answered 400 and leaves the session as it was: handle,
\* processes, signals and streams.
C13_InvalidAction ==
    [][(\E action \in Actions : WebcamInvalid(action)) =>
        /\ last'.status = 400
        /\ last'.error = "Invalid action. Use ?action=start or ?action=stop"
        /\ UNCHANGED <<up, dirs, wvars, dvars>>]_vars

\* a request without action was rejected while a process is tracked and alive
C13_Witness ==
    /\ last.route = "webcam" /\ last.action = "" /\ last.status = 400
    /\ pythonProcess # NULL
    /\ Alive(pythonProcess)

\* C15: the body of a start response is, chunk after chunk of its process and
\* in the order of the chunks, the four parts of one section: boundary
\* marker, image content-type line with a blank line, the chunk's bytes,
\* line break.
C15_OneSectionPerChunk ==
    \A p \in WProcs :
        /\ Len(wbody[p]) = 4 * Len(wout[p])
        /\ \A i \in 1..Len(wout[p]) :
             /\ wbody[p][4 * i - 3] = [text |-> "--frame\r\n", bytes |-> <<>>]
             /\ wbody[p][4 * i - 2] =
                    [text |-> "Content-Type: image/jpeg\r\n\r\n", bytes |-> <<>>]
             /\ wbody[p][4 * i - 1] = [text |-> "", bytes |-> wout[p][i]]
             /\ wbody[p][4 * i] = [text |-> "\r\n", bytes |-> <<>>]

\* a process relayed two different chunks
C15_Witness ==
    \E p \in WProcs : Len(wout[p]) = 2 /\ wout[p][1] # wout[p][2] /\ Len(wbody[p]) = 8

\* C18: a step in which a webcam process comes into existence is a start
\* request handled while no handle is tracked, and it spawns one process.
C18_SpawnOnlyOnStart ==
    [][(\E p \in WProcs : wstate[p] = "unborn" /\ wstate'[p] # "unborn") =>
        /\ pythonProcess = NULL
        /\ \E started \in BOOLEAN : WebcamStart(started)
        /\ Cardinality({p \in WProcs : wstate[p] = "unborn" /\ wstate'[p] # "unborn"}) = 1]_vars

\* after a process exited on its own and another was stopped and has exited,
\* a third one runs
C18_Witness ==
    /\ wstate[1] = "closed" /\ ~wsig[1]
    /\ wstate[2] = "closed" /\ wsig[2]
    /\ wstate[3] = "running"

\* C19: a step that writes to the response of a start request is a stdout
\* chunk of the process spawned by that request, and it writes to no other
\* response.
C19_FramesToOwnResponse ==
    [][\A q \in WProcs :
        wbody'[q] # wbody[q] =>
            /\ Alive(q)
            /\ \E data \in Frames :
                 /\ wout'[q] = Append(wout[q], data)
                 /\ wbody'[q] = wbody[q] \o
                        <<Boundary, PartHeader, [text |-> "", bytes |-> data], LineBreak>>
            /\ \A r \in WProcs \ {q} : wbody'[r] = wbody[r] /\ wout'[r] = wout[r]]_vars

\* a stopped process that has not exited yet and the process of the next
\* session each relayed a chunk, and the chunks differ
C19_Witness ==
    /\ Alive(1) /\ wsig[1]
    /\ Alive(2) /\ pythonProcess = 2
    /\ Len(wout[1]) = 1 /\ Len(wout[2]) = 1 /\ wout[1] # wout[2]

C4_SingleResponse ==
    \A j \in Jobs : /\ dsends[j] <= 1
                    /\ dstate[j] = "done" => Len(dres[j]) = 1

SameLetter(a, b) ==
    a = b \/ \E k \in 1..26 : {a, b} = {UpperCase[k], LowerCase[k]}

\* file has a stem followed by one of .jpg .jpeg .png .bmp, in any case
Recognized(file) ==
    \E e \in 1..Len(ImageExtensions) :
        LET ext == ImageExtensions[e]
            off == Len(file) - Len(ext) IN
        /\ off >= 1
        /\ \A i \in 1..Len(ext) : SameLetter(file[off + i], ext[i])

RecognizedAt(files) == {i \in 1..Len(files) : Recognized(files[i])}

\* the position in files of its n-th recognized entry
NthRecognized(files, n) ==
    CHOOSE i \in RecognizedAt(files) :
        Cardinality({k \in RecognizedAt(files) : k < i}) = n - 1

Listed(j) == dstate[j] = "done" /\ dcode[j] = 0 /\ dlist[j] = "ok"

\* C7: a job whose detector exited with code 0 and whose result folder was
\* listed with k >= 1 recognized files is answered once, with 200 and exactly
\* k URLs: the n-th URL is /output/{its id}/results/{n-th recognized file of
\* the listing}.
C7_SuccessUrls ==
    \A j \in Jobs :
        Listed(j) /\ RecognizedAt(dfiles[j]) # {} =>
            /\ Len(dres[j]) = 1
            /\ dres[j][1].status = 200
            /\ Len(dres[j][1].image) = Cardinality(RecognizedAt(dfiles[j]))
            /\ \A n \in 1..Len(dres[j][1].image) :
                 dres[j][1].image[n] =
                    [base |-> "http://localhost:3002/output/", id |-> uniqueId[j],
                     run |-> "results", file |-> dfiles[j][NthRecognized(dfiles[j], n)]]

\* a listing of two entries, the second one recognized only when case is
\* ignored, answered with its URL
C7_Witness ==
    \E j \in Jobs : /\ Listed(j)
                    /\ Len(dfiles[j]) = 2
                    /\ ~Recognized(dfiles[j][1])
                    /\ dfiles[j][2] = <<"c", ".", "P", "N", "G">>
                    /\ Len(dres[j][1].image) = 1

RECURSIVE ConcatText(_)
ConcatText(chunks) ==
    IF chunks = <<>> THEN <<>> ELSE ToString(Head(chunks)) \o ConcatText(Tail(chunks))

C9_NoImages ==
    \A j \in Jobs :
        /\ \A r \in 1..Len(dres[j]) :
             /\ \A n \in 1..Len(dres[j][r].image) : Recognized(dres[j][r].image[n].file)
             /\ dres[j][r].status = 200 => Len(dres[j][r].image) >= 1
        /\ Listed(j) /\ RecognizedAt(dfiles[j]) = {} =>
             dres[j] = <<[status |-> 500, error |-> "No images generated",
                          details |-> <<>>, image |-> <<>>]>>

\* a listing with only unrecognized entries answered 500
C9_Witness ==
    \E j \in Jobs : /\ Listed(j)
                    /\ Len(dfiles[j]) = 2
                    /\ RecognizedAt(dfiles[j]) = {}
                    /\ dres[j][1].status = 500

\* C11: whatever the other jobs do, a job whose detector is running can have
\* its close event handled and a job whose result folder is being listed can
\* have the listing handled (each yields that job's response), and while such
\* a job is waiting a /webcam request can be answered.
C11_OthersNotBlocked ==
    ~TickPending =>
        \A j \in Jobs :
            /\ dstate[j] = "running" =>
                   ENABLED DetectClose(j, 0) /\ ENABLED WebcamInvalid("")
            /\ dstate[j] = "listing" =>
                   ENABLED DetectReaddir(j, TRUE, <<>>) /\ ENABLED WebcamInvalid("")

Answered200(j) == \E r \in 1..Len(dres[j]) : dres[j][r].status = 200

\* C12: the jobs have different ids, and every URL of a response of job j
\* carries the id of job j and names an entry of the listing of job j.
C12_OwnUrlsOnly ==
    /\ \A j, k \in Jobs :
         j # k /\ dstate[j] # "unborn" /\ dstate[k] # "unborn" => uniqueId[j] # uniqueId[k]
    /\ \A j \in Jobs : \A r \in 1..Len(dres[j]) : \A n \in 1..Len(dres[j][r].image) :
         /\ dres[j][r].image[n].id = uniqueId[j]
         /\ \E i \in 1..Len(dfiles[j]) : dfiles[j][i] = dres[j][r].image[n].file

\* two jobs answered 200 with different listings, the one posted first
\* answered last
C12_Witness ==
    /\ Answered200(1) /\ Answered200(2)
    /\ dfiles[1] # dfiles[2]
    /\ image_path = dres[1][1].image

\* C14: a POST /detect without a file is answered 400 and changes nothing
\* else: no id, no folder, no process, no job state.
C14_NoFile ==
    [][DetectNoFile =>
        /\ last' = [route |-> "detect", action |-> "", status |-> 400,
                    error |-> "No image uploaded"]
        /\ UNCHANGED <<up, dirs, wvars, dvars>>]_vars

\* a request without file was rejected while a job is running
C14_Witness ==
    /\ last.route = "detect" /\ last.status = 400
    /\ \E j \in Jobs : dstate[j] = "running"

\* C16: a job is answered 200 only when its close listener has run with code
\* 0 and its result folder was listed without error; the result folder is
\* listed, or being listed, only when its close listener has run with code 0.
C16_SuccessAfterCleanExit ==
    \A j \in Jobs :
        /\ Answered200(j) => unlink[j] # "none" /\ dcode[j] = 0 /\ dlist[j] = "ok"
        /\ dstate[j] = "listing" \/ dlist[j] # "none" => unlink[j] # "none" /\ dcode[j] = 0

\* a job that wrote to stderr, exited with code 0 and was answered 200
C16_Witness ==
    \E j \in Jobs : Answered200(j) /\ stderrLog[j] # <<>> /\ dcode[j] = 0

\* the response of a finished job, from its exit code, its stderr chunks, the
\* outcome of the listing and its id
ExpectedResponse(j) ==
    IF dcode[j] = SpawnFailureCode
    THEN [status |-> 500, error |-> "Failed to start the Python process",
          details |-> SpawnMessage, image |-> <<>>]
    ELSE IF dcode[j] # 0
    THEN [status |-> 500, error |-> "Detection failed",
          details |-> ConcatText(stderrLog[j]), image |-> <<>>]
    ELSE IF dlist[j] = "error"
    THEN [status |-> 500, error |-> "Failed to read result folder",
          details |-> <<>>, image |-> <<>>]
    ELSE IF RecognizedAt(dfiles[j]) = {}
    THEN [status |-> 500, error |-> "No images generated", details |-> <<>>, image |-> <<>>]
    ELSE [status |-> 200, error |-> "", details |-> <<>>,
          image |-> [n \in 1..Cardinality(RecognizedAt(dfiles[j])) |->
                       [base |-> "http://localhost:3002/output/", id |-> uniqueId[j],
                        run |-> "results",
                        file |-> dfiles[j][NthRecognized(dfiles[j], n)]]]]

\* C17: the response of a finished job is determined by its exit code, its
\* stderr text, the listing and its id, whatever became of the deletion; the
\* completion of the deletion sends nothing and changes no job; the response
\* to a non-zero exit is sent while the deletion is still pending.
C17_UnlinkDoesNotMatter ==
    /\ [](\A j \in Jobs : dstate[j] = "done" => dres[j] = <<ExpectedResponse(j)>>)
    /\ [][\A j \in Jobs :
            unlink'[j] # unlink[j] /\ unlink[j] = "pending" =>
                UNCHANGED <<up, last, image_path, dstate, dres, dsends>>]_vars
    /\ [][\A j \in Jobs :
            dres[j] = <<>> /\ dres'[j] # <<>> /\ dcode'[j] \in ExitCodes \ {0} =>
                unlink'[j] = "pending"]_vars

\* a job answered 200 whose deletion failed, and the upload is still there
C17_Witness ==
    \E j \in Jobs : Answered200(j) /\ unlink[j] = "failed" /\ upfile[j]

====
